---- MODULE Spec2Model ----
(***************************************************************************)
(* Model of src/inventory_diff.py: the stock value parser, the composite   *)
(* key builder, InventoryComparator (validate_data, compare) and the       *)
(* Streamlit script run of main() around them.                             *)
(*                                                                         *)
(* Text is a sequence of one-character strings.  Characters outside ASCII  *)
(* are written with an ASCII stand-in (see BULLET, KANJI, SUP2); Ord gives *)
(* the real code point, which is what Python compares strings by.          *)
(* A float is held in fixed point: an integer count of 10^-Prec units.     *)
(***************************************************************************)
EXTENDS Integers, Sequences, FiniteSets, TLC

VARIABLES
    pc,          \* position of the run: "input", "done", "exported"
    value,       \* argument of parse_stock_value
    parsed,      \* its result
    data1,       \* DataFrame of file 1: [columns, rows]
    data2,       \* DataFrame of file 2
    validation,  \* result of validate_data(data1, data2)
    map1,        \* compare's key->row dict of data1
    map2,        \* compare's key->row dict of data2
    items,       \* list of ComparisonItem returned by compare
    summary,     \* ComparisonSummary returned by compare
    export_data, \* rows create_csv_data builds from the records
    session,     \* st.session_state: a dict, its domain the keys present
    file1,       \* content of the file_uploader "file1"
    file2,       \* content of the file_uploader "file2"
    calls,       \* engine calls of the latest script run, in order
    rendered,    \* widgets the latest script run rendered
    rerun        \* a script run is pending (page load or st.rerun())

engine ==
    <<value, parsed, data1, data2, validation, map1, map2, items, summary,
      export_data>>
app == <<session, file1, file2, calls, rendered, rerun>>
vars == <<pc, engine, app>>

-----------------------------------------------------------------------------
(* Bounds *)

MaxLen == 3          \* longest cell text given to parse_stock_value

Prec == MaxLen       \* fraction digits kept by the fixed-point floats

-----------------------------------------------------------------------------
(* Characters and text *)

BULLET == "@"        \* stands for U+25CF, the sentinel mark
KANJI == "K"         \* stands for U+500B, a unit suffix as in "12K"
SUP2 == "^"          \* stands for U+00B2, superscript two

NoneValue == <<"None">>   \* Python None / NaN cell

\* code point of a character
Ord(c) ==
    CASE c = " " -> 32
      [] c = "-" -> 45
      [] c = "." -> 46
      [] c = "0" -> 48
      [] c = "1" -> 49
      [] c = "2" -> 50
      [] c = "a" -> 97
      [] c = "b" -> 98
      [] c = "|" -> 124
      [] c = SUP2 -> 178
      [] c = BULLET -> 9679
      [] c = KANJI -> 20491

\* str.isspace for the characters of the model
IsSpace(c) == c = " "

\* decimal digits, the digits float() accepts
IsDecimal(c) == c \in {"0", "1", "2"}

\* str.isdigit: decimal digits and also digit-like characters such as U+00B2
IsDigit(c) == IsDecimal(c) \/ c = SUP2

DigitVal(c) == Ord(c) - 48

RECURSIVE LStrip(_)
LStrip(s) == IF s # <<>> /\ IsSpace(Head(s)) THEN LStrip(Tail(s)) ELSE s

RECURSIVE RStrip(_)
RStrip(s) ==
    IF s # <<>> /\ IsSpace(s[Len(s)]) THEN RStrip(SubSeq(s, 1, Len(s) - 1)) ELSE s

\* str.strip()
Strip(s) == RStrip(LStrip(s))

RECURSIVE Pow10(_)
Pow10(n) == IF n = 0 THEN 1 ELSE 10 * Pow10(n - 1)

-----------------------------------------------------------------------------
(* parse_stock_value *)

\* ''.join(filter(lambda x: x.isdigit() or x == '.', value))
RECURSIVE CleanedValue(_)
CleanedValue(s) ==
    IF s = <<>> THEN <<>>
    ELSE IF IsDigit(Head(s)) \/ Head(s) = "."
         THEN <<Head(s)>> \o CleanedValue(Tail(s))
         ELSE CleanedValue(Tail(s))

\* value of a run of decimal digits, read left to right
RECURSIVE DigitsValue(_)
DigitsValue(s) ==
    IF s = <<>> THEN 0
    ELSE DigitsValue(SubSeq(s, 1, Len(s) - 1)) * 10 + DigitVal(s[Len(s)])

\* index of the first '.' of s, or Len(s) + 1
RECURSIVE DotIndex(_)
DotIndex(s) ==
    IF s = <<>> \/ Head(s) = "." THEN 1 ELSE 1 + DotIndex(Tail(s))

\* float(s) for s made of isdigit characters and '.': the literal is
\* digits [ '.' [digits] ] or '.' digits; anything else is a ValueError.
Float(s) ==
    LET d == DotIndex(s)
        whole == SubSeq(s, 1, d - 1)
        frac == SubSeq(s, d + 1, Len(s))
        wellFormed ==
            /\ \A i \in 1..Len(whole) : IsDecimal(whole[i])
            /\ \A i \in 1..Len(frac) : IsDecimal(frac[i])
            /\ Len(whole) + Len(frac) > 0
    IN  IF wellFormed
        THEN [exc |-> "none",
              val |-> DigitsValue(whole) * Pow10(Prec)
                      + DigitsValue(frac) * Pow10(Prec - Len(frac))]
        ELSE [exc |-> "ValueError", val |-> 0]

parse_stock_value_noexcept(v) ==
    IF v = NoneValue \/ v = <<>>
    THEN [numeric |-> 0, display |-> <<>>, exc |-> "none"]
    ELSE LET original_value == Strip(v)
             cleaned_value == CleanedValue(v)
             f == IF cleaned_value # <<>> THEN Float(cleaned_value)
                  ELSE [exc |-> "none", val |-> 0]
         IN  IF original_value = <<BULLET>>
             THEN [numeric |-> 0, display |-> <<BULLET>>, exc |-> "none"]
             ELSE [numeric |-> f.val, display |-> original_value, exc |-> f.exc]

\* parse_stock_value reading a leading '-' as the sign of the number
parse_stock_value_signed(v) ==
    IF v = NoneValue \/ v = <<>>
    THEN [numeric |-> 0, display |-> <<>>, exc |-> "none"]
    ELSE LET original_value == Strip(v)
             cleaned_value == CleanedValue(v)
             f == IF cleaned_value # <<>> THEN Float(cleaned_value)
                  ELSE [exc |-> "none", val |-> 0]
         IN  IF original_value = <<BULLET>>
             THEN [numeric |-> 0, display |-> <<BULLET>>, exc |-> "none"]
             ELSE IF f.exc = "none"
                  THEN [numeric |-> IF original_value # <<>> /\ Head(original_value) = "-"
                                    THEN 0 - f.val ELSE f.val,
                        display |-> original_value, exc |-> "none"]
                  ELSE [numeric |-> 0, display |-> original_value,
                        exc |-> "none"]

parse_stock_value(v) ==
    IF v = NoneValue \/ v = <<>>
    THEN [numeric |-> 0, display |-> <<>>, exc |-> "none"]
    ELSE LET original_value == Strip(v)
             cleaned_value == CleanedValue(v)
             f == IF cleaned_value # <<>> THEN Float(cleaned_value)
                  ELSE [exc |-> "none", val |-> 0]
         IN  IF original_value = <<BULLET>>
             THEN [numeric |-> 0, display |-> <<BULLET>>, exc |-> "none"]
             ELSE IF f.exc = "none"
                  THEN [numeric |-> f.val, display |-> original_value,
                        exc |-> "none"]
                  \* except (ValueError, TypeError)
                  ELSE [numeric |-> 0, display |-> original_value,
                        exc |-> "none"]

-----------------------------------------------------------------------------
(* Run of parse_stock_value on one cell value *)

\* characters a stock cell is drawn from
StockChars == {" ", "-", ".", "0", "1", "2", KANJI, BULLET, SUP2}

Texts(chars, n) == UNION {[1..k -> chars] : k \in 0..n}

EmptyDict == [x \in {} |-> x]
NoTable == [columns |-> {}, rows |-> <<>>]
NotRun == [exc |-> "not run"]
NoSummary == [added |-> 0, deleted |-> 0, modified |-> 0, unchanged |-> 0]
NoFile == [file |-> "none"]

\* the application part of the state while a single function is run
AppIdle ==
    /\ session = EmptyDict
    /\ file1 = NoFile
    /\ file2 = NoFile
    /\ calls = <<>>
    /\ rendered = {}
    /\ rerun = FALSE

InitParse ==
    /\ pc = "input"
    /\ value \in Texts(StockChars, MaxLen) \cup {NoneValue}
    /\ parsed = NotRun
    /\ data1 = NoTable
    /\ data2 = NoTable
    /\ validation = NotRun
    /\ map1 = EmptyDict
    /\ map2 = EmptyDict
    /\ items = <<>>
    /\ summary = NoSummary
    /\ export_data = <<>>
    /\ AppIdle

Parse ==
    /\ pc = "input"
    /\ parsed' = parse_stock_value(value)
    /\ pc' = "done"
    /\ UNCHANGED <<value, data1, data2, validation, map1, map2, items, summary,
                 export_data, app>>

NextParse == Parse

SpecParse == InitParse /\ [][NextParse]_vars

-----------------------------------------------------------------------------
(* C10 *)

\* the characters of v that are digits or '.', in order
Literal(v) == SelectSeq(v, LAMBDA c : IsDigit(c) \/ c = ".")

DotCount(l) == Cardinality({i \in 1..Len(l) : l[i] = "."})

\* the literal is a number: decimal digits around at most one '.'
IsNumber(l) ==
    /\ DotCount(l) <= 1
    /\ \E i \in 1..Len(l) : IsDecimal(l[i])
    /\ \A i \in 1..Len(l) : IsDecimal(l[i]) \/ l[i] = "."

RECURSIVE SumOver(_, _)
SumOver(S, f) ==
    IF S = {} THEN 0
    ELSE LET i == CHOOSE j \in S : TRUE IN f[i] + SumOver(S \ {i}, f)

\* place-value reading of a number literal, in units of 10^-Prec
Denoted(l) ==
    LET p == IF \E i \in 1..Len(l) : l[i] = "."
             THEN CHOOSE i \in 1..Len(l) : l[i] = "."
             ELSE Len(l) + 1
        place == [i \in 1..Len(l) |->
                    IF i = p THEN 0
                    ELSE IF i < p THEN DigitVal(l[i]) * Pow10(Prec + p - 1 - i)
                    ELSE DigitVal(l[i]) * Pow10(Prec - (i - p))]
    IN  SumOver(1..Len(l), place)

\* C10: parse_stock_value never raises; a missing or empty value gives
\* (0, ""), the sentinel gives (0, sentinel), and any other text gives
\* (n, trimmed text) with n the number written by its digit and '.'
\* characters, or 0 when they spell no number.
ParseContract ==
    pc = "done" =>
        /\ parsed.exc = "none"
        /\ IF value = NoneValue \/ value = <<>>
           THEN parsed.numeric = 0 /\ parsed.display = <<>>
           ELSE IF Strip(value) = <<BULLET>>
           THEN parsed.numeric = 0 /\ parsed.display = <<BULLET>>
           ELSE /\ parsed.display = Strip(value)
                /\ parsed.numeric =
                       IF IsNumber(Literal(value)) THEN Denoted(Literal(value))
                       ELSE 0

\* "12K" parses to 12 and keeps its text; "1.." is not a number and gives 0
ParseContractWitness ==
    /\ pc = "done"
    /\ \/ /\ value = <<"1", "2", KANJI>>
          /\ parsed = [numeric |-> 12 * Pow10(Prec), display |-> value,
                       exc |-> "none"]
       \/ /\ value = <<"1", ".", ".">>
          /\ parsed = [numeric |-> 0, display |-> value, exc |-> "none"]

-----------------------------------------------------------------------------
(* C18 *)

\* the text without its '-' characters
WithoutMinus(v) == SelectSeq(v, LAMBDA c : c # "-")

\* C18: the amount parse_stock_value returns is never negative, and it is the
\* amount of the text with every '-' taken out: a minus sign is dropped like
\* any other character that is neither a digit nor '.'.
AmountNeverNegative ==
    pc = "done" =>
        /\ parsed.numeric >= 0
        /\ value # NoneValue =>
               parsed.numeric =
                   IF IsNumber(Literal(WithoutMinus(value)))
                   THEN Denoted(Literal(WithoutMinus(value)))
                   ELSE 0

\* "-1" parses to the amount 1 and keeps its text
AmountNeverNegativeWitness ==
    /\ pc = "done"
    /\ value = <<"-", "1">>
    /\ parsed = [numeric |-> Pow10(Prec), display |-> <<"-", "1">>, exc |-> "none"]

-----------------------------------------------------------------------------
(* AppConfig and InventoryComparator.validate_data *)

\* CONFIG.KEY_COLUMNS; the names stand for the source's
\* hinban, saizu-waku, kara-kodo, saizu-mei and JAN-kodo columns
KEY_COLUMNS == <<"hinban", "size_waku", "color_code", "size_mei", "jan_code">>

\* CONFIG.STOCK_COLUMN, the source's zaiko-su column
STOCK_COLUMN == "zaiko_su"

KeyColumnSet == {KEY_COLUMNS[i] : i \in 1..Len(KEY_COLUMNS)}

\* DataFrame.empty: some axis has length 0
IsEmpty(data) == data.rows = <<>> \/ data.columns = {}

\* [key for key in self.key_columns if key not in data1.columns]
MissingKeys(data) == SelectSeq(KEY_COLUMNS, LAMBDA key : key \notin data.columns)

validate_data_nostock(d1, d2) ==
    IF IsEmpty(d1) \/ IsEmpty(d2)
    THEN [ok |-> FALSE, msg |-> "empty data", missing_keys |-> <<>>]
    ELSE IF d1.columns # d2.columns
    THEN [ok |-> FALSE, msg |-> "columns differ", missing_keys |-> <<>>]
    ELSE IF MissingKeys(d1) # <<>>
    THEN [ok |-> FALSE, msg |-> "key columns missing",
          missing_keys |-> MissingKeys(d1)]
    ELSE [ok |-> TRUE, msg |-> "OK", missing_keys |-> <<>>]

validate_data(d1, d2) ==
    IF IsEmpty(d1) \/ IsEmpty(d2)
    THEN [ok |-> FALSE, msg |-> "empty data", missing_keys |-> <<>>]
    ELSE IF d1.columns # d2.columns
    THEN [ok |-> FALSE, msg |-> "columns differ", missing_keys |-> <<>>]
    ELSE IF MissingKeys(d1) # <<>>
    THEN [ok |-> FALSE, msg |-> "key columns missing",
          missing_keys |-> MissingKeys(d1)]
    ELSE IF STOCK_COLUMN \notin d1.columns
    THEN [ok |-> FALSE, msg |-> "stock column missing", missing_keys |-> <<>>]
    ELSE [ok |-> TRUE, msg |-> "OK", missing_keys |-> <<>>]

-----------------------------------------------------------------------------
(* Run of validate_data on two loaded sheets *)

MaxSheetRows == 1    \* most rows of a sheet given to validate_data

\* column names a sheet may carry
SheetColumns == KeyColumnSet \cup {STOCK_COLUMN}

\* pd.read_excel(..., dtype=str).fillna(""): a sheet with rows has columns
Sheets ==
    {[columns |-> cols, rows |-> [i \in 1..n |-> [c \in cols |-> <<>>]]] :
        <<cols, n>> \in {cn \in (SUBSET SheetColumns) \X (0..MaxSheetRows) :
                            cn[1] = {} => cn[2] = 0}}

InitValidate ==
    /\ pc = "input"
    /\ value = NoneValue
    /\ parsed = NotRun
    /\ data1 \in Sheets
    /\ data2 \in Sheets
    /\ validation = NotRun
    /\ map1 = EmptyDict
    /\ map2 = EmptyDict
    /\ items = <<>>
    /\ summary = NoSummary
    /\ export_data = <<>>
    /\ AppIdle

Validate ==
    /\ pc = "input"
    /\ validation' = validate_data(data1, data2)
    /\ pc' = "done"
    /\ UNCHANGED <<value, parsed, data1, data2, map1, map2, items, summary,
                 export_data, app>>

NextValidate == Validate

SpecValidate == InitValidate /\ [][NextValidate]_vars

-----------------------------------------------------------------------------
(* C8 *)

HasRows(data) == Len(data.rows) >= 1
AbsentKeyColumns == {k \in KeyColumnSet : k \notin data1.columns}

\* C8: validate_data succeeds exactly when both tables have a row, the
\* column sets agree, and every key column and the stock column are
\* present; otherwise its reason is that of the first violated rule in the
\* order empty, schema, key columns (naming exactly the absent ones), stock
\* column, and each rule has a reason of its own.
ValidationContract ==
    pc = "done" =>
        LET rows == HasRows(data1) /\ HasRows(data2)
            schema == data1.columns = data2.columns
            keys == AbsentKeyColumns = {}
            stock == STOCK_COLUMN \in data1.columns /\ STOCK_COLUMN \in data2.columns
            named == {validation.missing_keys[i] :
                         i \in 1..Len(validation.missing_keys)}
        IN  /\ validation.ok <=> (rows /\ schema /\ keys /\ stock)
            /\ validation.msg = "empty data" <=> ~rows
            /\ validation.msg = "columns differ" <=> (rows /\ ~schema)
            /\ validation.msg = "key columns missing" <=> (rows /\ schema /\ ~keys)
            /\ validation.msg = "stock column missing"
                   <=> (rows /\ schema /\ keys /\ ~stock)
            /\ validation.msg = "key columns missing" =>
                   /\ named = AbsentKeyColumns
                   /\ Len(validation.missing_keys) = Cardinality(AbsentKeyColumns)
            /\ validation.ok <=> validation.msg = "OK"

\* two key columns and the stock column are absent: the key columns are
\* reported, both of them
ValidationContractWitness ==
    /\ pc = "done"
    /\ HasRows(data1) /\ HasRows(data2)
    /\ data1.columns = data2.columns
    /\ STOCK_COLUMN \notin data1.columns
    /\ validation = [ok |-> FALSE, msg |-> "key columns missing",
                     missing_keys |-> <<"size_waku", "jan_code">>]

-----------------------------------------------------------------------------
(* InventoryComparator: keys, maps, classification, compare *)

\* row.get(col, default)
Get(row, col, default) == IF col \in DOMAIN row THEN row[col] ELSE default

\* sep.join(parts)
RECURSIVE Join(_, _)
Join(sep, parts) ==
    IF parts = <<>> THEN <<>>
    ELSE IF Len(parts) = 1 THEN parts[1]
    ELSE parts[1] \o sep \o Join(sep, Tail(parts))

_generate_key(row) ==
    Join(<<"|">>, [i \in 1..Len(KEY_COLUMNS) |-> Strip(Get(row, KEY_COLUMNS[i], <<>>))])

\* d[k] = v on a dict
Put(d, k, v) == (k :> v) @@ d

\* as DataMapRow, but a key already in the dict keeps its first row
DataMapRowFirstWins(m, row) ==
    IF _generate_key(row) # <<>> /\ _generate_key(row) \notin DOMAIN m
    THEN Put(m, _generate_key(row), row)
    ELSE m

\* one row of the dict comprehension of _create_data_map: the row is stored
\* under its key if the key is not empty
DataMapRow(m, row) ==
    IF _generate_key(row) # <<>> THEN Put(m, _generate_key(row), row)
    ELSE m

\* the dict comprehension over rows lo..hi from the dict acc, in order; the
\* dict after the first half is computed before the second half starts
RECURSIVE DataMapRange(_, _, _, _)
DataMapRange(acc, data, lo, hi) ==
    IF lo > hi THEN acc
    ELSE IF lo = hi THEN DataMapRow(acc, data.rows[lo])
    ELSE LET half == DataMapRange(acc, data, lo, (lo + hi) \div 2)
         IN  IF Cardinality(DOMAIN half) <= hi
             THEN DataMapRange(half, data, (lo + hi) \div 2 + 1, hi)
             ELSE half

_create_data_map(data) == DataMapRange(EmptyDict, data, 1, Len(data.rows))

\* a < b on str: by code point at the first difference, a prefix first
RECURSIVE StrLess(_, _)
StrLess(a, b) ==
    IF b = <<>> THEN FALSE
    ELSE IF a = <<>> THEN TRUE
    ELSE IF Head(a) # Head(b) THEN Ord(Head(a)) < Ord(Head(b))
    ELSE StrLess(Tail(a), Tail(b))

\* as Sorted, with reverse=True
SortedReverse(S) ==
    [i \in 1..Cardinality(S) |->
        CHOOSE x \in S : Cardinality({y \in S : StrLess(x, y)}) = i - 1]

\* sorted(S) for a set of str: the i-th element has i - 1 elements below it
Sorted(S) ==
    [i \in 1..Cardinality(S) |->
        CHOOSE x \in S : Cardinality({y \in S : StrLess(y, x)}) = i - 1]

\* as all_keys, with & for |
all_keys_common(m1, m2) == Sorted(DOMAIN m1 \cap DOMAIN m2)

\* sorted(set(map1.keys()) | set(map2.keys()))
all_keys(m1, m2) == Sorted(DOMAIN m1 \cup DOMAIN m2)

NoneRow == [none |-> TRUE]      \* dict.get on an absent key

\* map.get(key)
MapGet(map, key) == IF key \in DOMAIN map THEN map[key] ELSE NoneRow

\* truth value of an Optional[Dict]: None and {} are false
Truthy(row) == row # NoneRow /\ DOMAIN row # {}

\* as _determine_item_type, with the one-sided branches exchanged
_determine_item_type_swapped(row1, row2, stock1_display, stock2_display) ==
    IF Truthy(row1) /\ Truthy(row2)
    THEN [type |-> IF stock1_display # stock2_display THEN "modified"
                   ELSE "unchanged",
          data |-> row2, exc |-> "none"]
    ELSE IF Truthy(row2) /\ ~Truthy(row1)
    THEN [type |-> "deleted", data |-> row2, exc |-> "none"]
    ELSE IF Truthy(row1) /\ ~Truthy(row2)
    THEN [type |-> "added", data |-> row1, exc |-> "none"]
    ELSE [type |-> "", data |-> NoneRow, exc |-> "ValueError"]

\* as _determine_item_type, comparing the rows instead of the display texts
_determine_item_type_byrow(row1, row2, stock1_display, stock2_display) ==
    IF Truthy(row1) /\ Truthy(row2)
    THEN [type |-> IF row1 # row2 THEN "modified" ELSE "unchanged",
          data |-> row2, exc |-> "none"]
    ELSE IF Truthy(row2) /\ ~Truthy(row1)
    THEN [type |-> "added", data |-> row2, exc |-> "none"]
    ELSE IF Truthy(row1) /\ ~Truthy(row2)
    THEN [type |-> "deleted", data |-> row1, exc |-> "none"]
    ELSE [type |-> "", data |-> NoneRow, exc |-> "ValueError"]

_determine_item_type(row1, row2, stock1_display, stock2_display) ==
    IF Truthy(row1) /\ Truthy(row2)
    THEN [type |-> IF stock1_display # stock2_display THEN "modified"
                   ELSE "unchanged",
          data |-> row2, exc |-> "none"]
    ELSE IF Truthy(row2) /\ ~Truthy(row1)
    THEN [type |-> "added", data |-> row2, exc |-> "none"]
    ELSE IF Truthy(row1) /\ ~Truthy(row2)
    THEN [type |-> "deleted", data |-> row1, exc |-> "none"]
    ELSE [type |-> "", data |-> NoneRow, exc |-> "ValueError"]

\* ComparisonSummary()
NewSummary == [added |-> 0, deleted |-> 0, modified |-> 0, unchanged |-> 0]

\* as UpdateSummary, without the 'modified' branch
UpdateSummaryNoModified(s, item_type) ==
    IF item_type = "added" THEN [s EXCEPT !.added = @ + 1]
    ELSE IF item_type = "deleted" THEN [s EXCEPT !.deleted = @ + 1]
    ELSE [s EXCEPT !.unchanged = @ + 1]

\* the summary update of compare
UpdateSummary(s, item_type) ==
    IF item_type = "added" THEN [s EXCEPT !.added = @ + 1]
    ELSE IF item_type = "deleted" THEN [s EXCEPT !.deleted = @ + 1]
    ELSE IF item_type = "modified" THEN [s EXCEPT !.modified = @ + 1]
    ELSE [s EXCEPT !.unchanged = @ + 1]

\* ComparisonSummary.total_items
total_items(s) == s.added + s.deleted + s.modified + s.unchanged

\* the loop body with the subtraction the other way round
CompareKeyReversed(acc, m1, m2, key) ==
    LET row1 == MapGet(m1, key)
        row2 == MapGet(m2, key)
        p1 == IF Truthy(row1) THEN parse_stock_value(Get(row1, STOCK_COLUMN, NoneValue))
              ELSE [numeric |-> 0, display |-> <<>>, exc |-> "none"]
        p2 == IF Truthy(row2) THEN parse_stock_value(Get(row2, STOCK_COLUMN, NoneValue))
              ELSE [numeric |-> 0, display |-> <<>>, exc |-> "none"]
        stock_change == p1.numeric - p2.numeric
        t == _determine_item_type(row1, row2, p1.display, p2.display)
    IN  IF t.exc = "ValueError" THEN acc
        ELSE [items |-> Append(acc.items,
                  [type |-> t.type, data |-> t.data,
                   stock1 |-> p1.numeric, stock2 |-> p2.numeric,
                   stock1_display |-> p1.display, stock2_display |-> p2.display,
                   stock_change |-> stock_change, key |-> key]),
              summary |-> UpdateSummary(acc.summary, t.type)]

\* one pass of the body of compare's loop, from the state acc = [items, summary]
CompareKey(acc, m1, m2, key) ==
    LET row1 == MapGet(m1, key)
        row2 == MapGet(m2, key)
        p1 == IF Truthy(row1) THEN parse_stock_value(Get(row1, STOCK_COLUMN, NoneValue))
              ELSE [numeric |-> 0, display |-> <<>>, exc |-> "none"]
        p2 == IF Truthy(row2) THEN parse_stock_value(Get(row2, STOCK_COLUMN, NoneValue))
              ELSE [numeric |-> 0, display |-> <<>>, exc |-> "none"]
        stock_change == p2.numeric - p1.numeric
        t == _determine_item_type(row1, row2, p1.display, p2.display)
    IN  IF t.exc = "ValueError" THEN acc     \* except ValueError: continue
        ELSE [items |-> Append(acc.items,
                  [type |-> t.type, data |-> t.data,
                   stock1 |-> p1.numeric, stock2 |-> p2.numeric,
                   stock1_display |-> p1.display, stock2_display |-> p2.display,
                   stock_change |-> stock_change, key |-> key]),
              summary |-> UpdateSummary(acc.summary, t.type)]

\* compare's loop over keys[lo..hi] from the state acc, in order.  The range
\* is walked in two halves and the state after the first half is computed
\* (its length looked at) before the second half starts, which keeps the
\* evaluation of a long loop shallow.
RECURSIVE CompareLoop(_, _, _, _, _, _)
CompareLoop(acc, m1, m2, keys, lo, hi) ==
    IF lo > hi THEN acc
    ELSE IF lo = hi THEN CompareKey(acc, m1, m2, keys[lo])
    ELSE LET half == CompareLoop(acc, m1, m2, keys, lo, (lo + hi) \div 2)
         IN  IF Len(half.items) <= hi
             THEN CompareLoop(half, m1, m2, keys, (lo + hi) \div 2 + 1, hi)
             ELSE half

\* compare with dicts that outlive the call: the rows of the call before
\* stay in them
compare_keeps_maps(d1, d2) ==
    LET n1 == _create_data_map(d1)
        n2 == _create_data_map(d2)
        m1 == [k \in DOMAIN map1 \cup DOMAIN n1 |->
                  IF k \in DOMAIN n1 THEN n1[k] ELSE map1[k]]
        m2 == [k \in DOMAIN map2 \cup DOMAIN n2 |->
                  IF k \in DOMAIN n2 THEN n2[k] ELSE map2[k]]
        keys == all_keys(m1, m2)
        r == CompareLoop([items |-> <<>>, summary |-> NewSummary], m1, m2, keys,
                         1, Len(keys))
    IN  [map1 |-> m1, map2 |-> m2, items |-> r.items, summary |-> r.summary]

\* compare; the result carries the two dicts along with items and summary
compare(d1, d2) ==
    LET m1 == _create_data_map(d1)
        m2 == _create_data_map(d2)
        keys == all_keys(m1, m2)
        r == CompareLoop([items |-> <<>>, summary |-> NewSummary], m1, m2, keys,
                         1, Len(keys))
    IN  [map1 |-> m1, map2 |-> m2, items |-> r.items, summary |-> r.summary]

-----------------------------------------------------------------------------
(* format_stock_display and create_csv_data *)

DigitChar(d) ==
    CASE d = 0 -> "0" [] d = 1 -> "1" [] d = 2 -> "2" [] d = 3 -> "3"
      [] d = 4 -> "4" [] d = 5 -> "5" [] d = 6 -> "6" [] d = 7 -> "7"
      [] d = 8 -> "8" [] d = 9 -> "9"

\* decimal digits of a natural number
RECURSIVE Digits(_)
Digits(n) ==
    IF n < 10 THEN <<DigitChar(n)>>
    ELSE Append(Digits(n \div 10), DigitChar(n % 10))

\* the integer nearest to the magnitude of x, a tie going to the even one,
\* as the 'f' presentation type rounds
RoundHalfEven(x) ==
    LET unit == Pow10(Prec)
        m == IF x < 0 THEN 0 - x ELSE x
        q == m \div unit
        r == m % unit
    IN  IF 2 * r > unit THEN q + 1
        ELSE IF 2 * r < unit THEN q
        ELSE IF q % 2 = 0 THEN q ELSE q + 1

\* f"{x:.0f}"
FormatFixed(x) ==
    (IF x < 0 THEN <<"-">> ELSE <<>>) \o Digits(RoundHalfEven(x))

\* f"{x:+.0f}" without the plus sign of a non-negative number
FormatSignedNoPlus(x) ==
    (IF x < 0 THEN <<"-">> ELSE <<>>) \o Digits(RoundHalfEven(x))

\* f"{x:+.0f}"
FormatSigned(x) ==
    (IF x < 0 THEN <<"-">> ELSE <<"+">>) \o Digits(RoundHalfEven(x))

\* format_stock_display looking for the sentinel on side A only
format_stock_display_side1(item) ==
    LET d1 == IF item.stock1_display = <<BULLET>> THEN item.stock1_display
              ELSE FormatFixed(item.stock1)
        d2 == IF item.stock2_display = <<BULLET>> THEN item.stock2_display
              ELSE FormatFixed(item.stock2)
    IN  IF item.type = "added"
        THEN [stock1_display |-> <<>>, stock2_display |-> d2,
              stock_change_display |-> <<>>]
        ELSE IF item.type = "deleted"
        THEN [stock1_display |-> d1, stock2_display |-> <<>>,
              stock_change_display |-> <<>>]
        ELSE [stock1_display |-> d1, stock2_display |-> d2,
              stock_change_display |->
                  IF item.stock1_display = <<BULLET>> THEN <<>>
                  ELSE FormatSigned(item.stock_change)]

\* the three display texts of a record: side A, side B, change
format_stock_display(item) ==
    LET d1 == IF item.stock1_display = <<BULLET>> THEN item.stock1_display
              ELSE FormatFixed(item.stock1)
        d2 == IF item.stock2_display = <<BULLET>> THEN item.stock2_display
              ELSE FormatFixed(item.stock2)
    IN  IF item.type = "added"
        THEN [stock1_display |-> <<>>, stock2_display |-> d2,
              stock_change_display |-> <<>>]
        ELSE IF item.type = "deleted"
        THEN [stock1_display |-> d1, stock2_display |-> <<>>,
              stock_change_display |-> <<>>]
        ELSE [stock1_display |-> d1, stock2_display |-> d2,
              stock_change_display |->
                  IF item.stock1_display = <<BULLET>> \/ item.stock2_display = <<BULLET>>
                  THEN <<>>
                  ELSE FormatSigned(item.stock_change)]

\* CONFIG.TYPE_EXPORT_MAP: tsuika, sakujo, zaiko-henko, henko-nashi
TYPE_EXPORT_MAP ==
    [t \in {"added", "deleted", "modified", "unchanged"} |->
        CASE t = "added" -> "tsuika"
          [] t = "deleted" -> "sakujo"
          [] t = "modified" -> "zaiko_henko"
          [] t = "unchanged" -> "henko_nashi"]

\* headers of the exported fields: henko-taipu, fairu-1-zaiko, fairu-2-zaiko,
\* zaiko-henka, hikaku-ki
ExportColumns ==
    {"henko_type", "file1_zaiko", "file2_zaiko", "zaiko_henka", "hikaku_key"}

\* the row dict create_csv_data builds for one record; an original column
\* is assigned after the five fields
ExportRow(item, columns, f) ==
    [c \in ExportColumns \cup columns |->
        IF c \in columns THEN Get(item.data, c, <<>>)
        ELSE CASE c = "henko_type" -> TYPE_EXPORT_MAP[item.type]
               [] c = "file1_zaiko" -> f.stock1_display
               [] c = "file2_zaiko" -> f.stock2_display
               [] c = "zaiko_henka" -> f.stock_change_display
               [] c = "hikaku_key" -> item.key]

\* export_data of create_csv_data: the rows handed to DataFrame.to_csv
create_csv_data(its, columns) ==
    IF its = <<>> THEN <<>>
    ELSE [i \in 1..Len(its) |-> ExportRow(its[i], columns, format_stock_display(its[i]))]

-----------------------------------------------------------------------------
(* Run of compare on two validated sheets *)

MaxRows == 3         \* most rows of the two compared sheets together

\* texts of the first key column: two spellings of "a", "b", and blank
KeyCells == {<<"a">>, <<"a", " ">>, <<"b">>, <<" ">>}

\* texts of the stock column
StockCells ==
    {<<"1">>, <<" ", "1">>, <<"1", ".", "0">>, <<"2">>, <<"-", "1">>, <<".", "2">>,
     <<BULLET>>}

\* a row of a sheet with every column; the other key columns are empty
MkRow(k, st) ==
    [c \in SheetColumns |->
        IF c = KEY_COLUMNS[1] THEN k ELSE IF c = STOCK_COLUMN THEN st ELSE <<>>]

\* rows of the compared sheets: every key text with stock "1", and key "a"
\* with every stock text
SheetRows ==
    {MkRow(k, <<"1">>) : k \in KeyCells} \cup {MkRow(<<"a">>, st) : st \in StockCells}

InitCompare ==
    /\ pc = "input"
    /\ value = NoneValue
    /\ parsed = NotRun
    /\ \E n1 \in 1..(MaxRows - 1) : \E n2 \in 1..(MaxRows - n1) :
          /\ data1 \in {[columns |-> SheetColumns, rows |-> r] :
                           r \in [1..n1 -> SheetRows]}
          /\ data2 \in {[columns |-> SheetColumns, rows |-> r] :
                           r \in [1..n2 -> SheetRows]}
    /\ validation = NotRun
    /\ map1 = EmptyDict
    /\ map2 = EmptyDict
    /\ items = <<>>
    /\ summary = NoSummary
    /\ export_data = <<>>
    /\ AppIdle

\* validate_data, then compare, as handle_comparison_execution calls them
Compare ==
    /\ pc = "input"
    /\ validate_data(data1, data2).ok
    /\ validation' = validate_data(data1, data2)
    /\ LET r == compare(data1, data2)
       IN  /\ map1' = r.map1
           /\ map2' = r.map2
           /\ items' = r.items
           /\ summary' = r.summary
    /\ pc' = "done"
    /\ UNCHANGED <<value, parsed, data1, data2, export_data, app>>

\* the CSV rows of the result, as the download button asks for them with
\* the columns of table A
Export ==
    /\ pc = "done"
    /\ export_data' = create_csv_data(items, data1.columns)
    /\ pc' = "exported"
    /\ UNCHANGED <<value, parsed, data1, data2, validation, map1, map2, items,
                   summary, app>>

NextCompare == Compare \/ Export

SpecCompare == InitCompare /\ [][NextCompare]_vars

-----------------------------------------------------------------------------
(* C1 - C7: properties of the result of compare *)

\* composite keys of the rows of a table
TableKeys(data) == {_generate_key(data.rows[i]) : i \in 1..Len(data.rows)}

\* the last row of the table that has composite key k
LastRow(data, k) ==
    LET last == CHOOSE i \in 1..Len(data.rows) :
                    /\ _generate_key(data.rows[i]) = k
                    /\ \A j \in (i + 1)..Len(data.rows) :
                           _generate_key(data.rows[j]) # k
    IN  data.rows[last]

\* trimmed text of the stock cell of a row
StockText(row) == Strip(row[STOCK_COLUMN])

\* amount written by the digits and '.' of a text, 0 if they spell no number
Amount(text) == IF IsNumber(Literal(text)) THEN Denoted(Literal(text)) ELSE 0

\* every identifying column of the row is empty or whitespace
IsBlankRow(row) ==
    \A i \in 1..Len(KEY_COLUMNS) :
        \A j \in 1..Len(row[KEY_COLUMNS[i]]) : row[KEY_COLUMNS[i]][j] = " "

CountOf(type) == Cardinality({i \in 1..Len(items) : items[i].type = type})

\* a sorts before b: a is a proper prefix of b, or at the first index
\* where they differ a has the smaller code point
LexBefore(a, b) ==
    \/ /\ Len(a) < Len(b)
       /\ \A i \in 1..Len(a) : a[i] = b[i]
    \/ \E i \in 1..Len(a) :
          /\ i <= Len(b)
          /\ Ord(a[i]) < Ord(b[i])
          /\ \A j \in 1..(i - 1) : a[j] = b[j]

\* C1: a record whose key is in both key->row maps is 'modified' or
\* 'unchanged', one whose key is only in the map of table B is 'added', and
\* one whose key is only in the map of table A is 'deleted'.
ClassifiedByPresence ==
    pc = "done" =>
        \A i \in 1..Len(items) :
            LET in1 == items[i].key \in DOMAIN map1
                in2 == items[i].key \in DOMAIN map2
            IN  /\ in1 \/ in2
                /\ in1 /\ in2 => items[i].type \in {"modified", "unchanged"}
                /\ in2 /\ ~in1 => items[i].type = "added"
                /\ in1 /\ ~in2 => items[i].type = "deleted"

\* a result with a key on both sides and a key only in table B
ClassifiedByPresenceWitness ==
    /\ pc = "done"
    /\ \E i, j \in 1..Len(items) :
          /\ items[i].type = "added"
          /\ items[i].key \notin DOMAIN map1
          /\ items[j].type \in {"modified", "unchanged"}
          /\ items[j].key \in DOMAIN map1 \cap DOMAIN map2

\* C2: a key on both sides is 'modified' exactly when the trimmed texts of
\* its two stock cells differ and 'unchanged' otherwise, whatever the
\* amounts are.
ClassifiedByDisplayText ==
    pc = "done" =>
        \A i \in 1..Len(items) :
            LET k == items[i].key
            IN  k \in DOMAIN map1 \cap DOMAIN map2 =>
                    /\ items[i].type = "modified"
                           <=> StockText(map1[k]) # StockText(map2[k])
                    /\ items[i].type = "unchanged"
                           <=> StockText(map1[k]) = StockText(map2[k])

\* "1" against "1.0": equal amounts, different texts, 'modified'
ClassifiedByDisplayTextWitness ==
    /\ pc = "done"
    /\ \E i \in 1..Len(items) :
          /\ items[i].type = "modified"
          /\ items[i].stock1_display = <<"1">>
          /\ items[i].stock2_display = <<"1", ".", "0">>
          /\ items[i].stock_change = 0

\* C3: compare gives exactly one record for every composite key of a row
\* of table A or table B, and no other record.
OneRecordPerKey ==
    pc = "done" =>
        LET union == TableKeys(data1) \cup TableKeys(data2)
        IN  /\ Len(items) = Cardinality(union)
            /\ \A k \in union :
                   Cardinality({i \in 1..Len(items) : items[i].key = k}) = 1

\* three rows, two of them with one key: two records
OneRecordPerKeyWitness ==
    /\ pc = "done"
    /\ Len(data1.rows) + Len(data2.rows) = 3
    /\ Len(items) = 2
    /\ items[1].key # items[2].key

\* C4: each summary counter is the number of records of its
\* classification, and total_items is the number of records.
SummaryCounts ==
    pc = "done" =>
        /\ summary.added = CountOf("added")
        /\ summary.deleted = CountOf("deleted")
        /\ summary.modified = CountOf("modified")
        /\ summary.unchanged = CountOf("unchanged")
        /\ total_items(summary) = Len(items)

\* a result with one 'modified' and one 'deleted' record
SummaryCountsWitness ==
    /\ pc = "done"
    /\ summary.modified = 1
    /\ summary.deleted = 1
    /\ Len(items) = 2

\* C5: the records are in strictly ascending order of their key strings.
AscendingKeys ==
    pc = "done" =>
        \A i, j \in 1..Len(items) :
            i < j => LexBefore(items[i].key, items[j].key)

\* three keys, and the rows of table A do not come in key order
AscendingKeysWitness ==
    /\ pc = "done"
    /\ Len(items) = 3
    /\ Len(data1.rows) = 2
    /\ LexBefore(_generate_key(data1.rows[2]), _generate_key(data1.rows[1]))

\* C6 as claimed: a row whose identifying columns are all blank has no
\* entry in the key->row map, no record and no summary count.
BlankRowsExcluded ==
    pc = "done" =>
        /\ \A k \in DOMAIN map1 : ~IsBlankRow(map1[k])
        /\ \A k \in DOMAIN map2 : ~IsBlankRow(map2[k])
        /\ \A i \in 1..Len(items) : ~IsBlankRow(items[i].data)
        /\ total_items(summary) =
               Cardinality({_generate_key(r) :
                   r \in {data1.rows[i] : i \in 1..Len(data1.rows)}
                         \cup {data2.rows[i] : i \in 1..Len(data2.rows)}}
                   \ {_generate_key(MkRow(<<>>, <<>>))})

\* C7: each key->row map holds, for a key, the last row of its table with
\* that key, and the stock amount, display text and row data of a record
\* are those of the last rows.
LastWriteWins ==
    pc = "done" =>
        /\ \A k \in DOMAIN map1 : map1[k] = LastRow(data1, k)
        /\ \A k \in DOMAIN map2 : map2[k] = LastRow(data2, k)
        /\ \A i \in 1..Len(items) :
               LET k == items[i].key
               IN  /\ k \in TableKeys(data1) =>
                          /\ items[i].stock1_display = StockText(LastRow(data1, k))
                          /\ items[i].stock1 = Amount(StockText(LastRow(data1, k)))
                   /\ k \in TableKeys(data2) =>
                          /\ items[i].stock2_display = StockText(LastRow(data2, k))
                          /\ items[i].stock2 = Amount(StockText(LastRow(data2, k)))
                   /\ items[i].data =
                          IF k \in TableKeys(data2) THEN LastRow(data2, k)
                          ELSE LastRow(data1, k)

\* table A has two rows of one key with different stock texts; the record
\* carries the text of the second
LastWriteWinsWitness ==
    /\ pc = "done"
    /\ Len(data1.rows) = 2
    /\ _generate_key(data1.rows[1]) = _generate_key(data1.rows[2])
    /\ StockText(data1.rows[1]) # StockText(data1.rows[2])
    /\ Len(items) = 1
    /\ items[1].stock1_display = StockText(data1.rows[2])

-----------------------------------------------------------------------------
(* C11 *)

\* amount of the stock cell of the row that table data keeps for key k,
\* 0 when the table has no row with that key
SideAmount(data, k) ==
    IF k \in TableKeys(data) THEN Amount(StockText(LastRow(data, k))) ELSE 0

\* C11: for every record of compare, stock1 and stock2 are the amounts parsed
\* from side A and side B (0 with empty display text on a side where the key
\* is absent) and stock_change is the amount of side B minus that of side A.
StockChangeIsDifference ==
    pc = "done" =>
        \A i \in 1..Len(items) :
            LET it == items[i]
            IN  /\ it.stock1 = SideAmount(data1, it.key)
                /\ it.stock2 = SideAmount(data2, it.key)
                /\ it.stock_change = SideAmount(data2, it.key) - SideAmount(data1, it.key)
                /\ it.key \notin TableKeys(data1) => it.stock1_display = <<>>
                /\ it.key \notin TableKeys(data2) => it.stock2_display = <<>>

\* stock "1" in A and "2" in B under one key: a single 'modified' record with
\* stock1 = 1, stock2 = 2, stock_change = 1 and summary (0, 0, 1, 0)
StockChangeIsDifferenceWitness ==
    /\ pc = "done"
    /\ Len(items) = 1
    /\ items[1].type = "modified"
    /\ items[1].stock1_display = <<"1">>
    /\ items[1].stock2_display = <<"2">>
    /\ items[1].stock1 = Pow10(Prec)
    /\ items[1].stock2 = 2 * Pow10(Prec)
    /\ items[1].stock_change = Pow10(Prec)
    /\ summary = [added |-> 0, deleted |-> 0, modified |-> 1, unchanged |-> 0]

\* stock "-1" in A and "1" in B under one key: 'modified' (the texts differ)
\* with equal amounts and stock_change 0
MinusPairModified ==
    /\ pc = "done"
    /\ \E i \in 1..Len(items) :
          /\ items[i].stock1_display = <<"-", "1">>
          /\ items[i].stock2_display = <<"1">>
          /\ items[i].type = "modified"
          /\ items[i].stock1 = items[i].stock2
          /\ items[i].stock_change = 0

-----------------------------------------------------------------------------
(* C12, C13 *)

\* a sign followed by decimal digits
IsSignedInteger(text) ==
    /\ Len(text) >= 2
    /\ text[1] \in {"+", "-"}
    /\ \A i \in 2..Len(text) :
           text[i] \in {"0", "1", "2", "3", "4", "5", "6", "7", "8", "9"}

\* C12: the exported change field of a record is empty exactly when the
\* record is 'added' or 'deleted' or the display text of side A or side B is
\* the sentinel; otherwise it is an integer with a leading '+' or '-'.  An
\* 'added' row has an empty side-A stock field and a 'deleted' row an empty
\* side-B stock field.
ExportedChangeField ==
    pc = "exported" =>
        /\ Len(export_data) = Len(items)
        /\ \A i \in 1..Len(items) :
               LET it == items[i]
                   row == export_data[i]
                   suppressed == \/ it.type \in {"added", "deleted"}
                                 \/ it.stock1_display = <<BULLET>>
                                 \/ it.stock2_display = <<BULLET>>
               IN  /\ row["zaiko_henka"] = <<>> <=> suppressed
                   /\ ~suppressed => IsSignedInteger(row["zaiko_henka"])
                   /\ it.type = "added" => row["file1_zaiko"] = <<>>
                   /\ it.type = "deleted" => row["file2_zaiko"] = <<>>

\* a 'modified' record with amount 1 on side A and the sentinel on side B is
\* exported with an empty change field, next to a 'deleted' record
ExportedChangeFieldWitness ==
    /\ pc = "exported"
    /\ \E i \in 1..Len(items) :
          /\ items[i].type = "modified"
          /\ items[i].stock1 = Pow10(Prec)
          /\ items[i].stock2_display = <<BULLET>>
          /\ export_data[i]["zaiko_henka"] = <<>>
    /\ \E i \in 1..Len(items) :
          /\ items[i].type = "deleted"
          /\ export_data[i]["file2_zaiko"] = <<>>
          /\ export_data[i]["zaiko_henka"] = <<>>

\* C13: a key whose rows in the two tables are identical gives an
\* 'unchanged' record, and every 'unchanged' record whose stock display text
\* is not the sentinel has stock_change 0 and the exported change field "+0".
UnchangedShowsPlusZero ==
    pc = "exported" =>
        \A i \in 1..Len(items) :
            LET it == items[i]
            IN  /\ ( /\ it.key \in TableKeys(data1) \cap TableKeys(data2)
                     /\ LastRow(data1, it.key) = LastRow(data2, it.key) )
                       => it.type = "unchanged"
                /\ (it.type = "unchanged" /\ it.stock1_display # <<BULLET>>)
                       => /\ it.stock_change = 0
                          /\ export_data[i]["zaiko_henka"] = <<"+", "0">>

\* identical rows with stock "1" on both sides, exported with "+0"
UnchangedShowsPlusZeroWitness ==
    /\ pc = "exported"
    /\ \E i \in 1..Len(items) :
          /\ items[i].type = "unchanged"
          /\ LastRow(data1, items[i].key) = LastRow(data2, items[i].key)
          /\ items[i].stock1_display = <<"1">>
          /\ items[i].stock_change = 0
          /\ export_data[i]["zaiko_henka"] = <<"+", "0">>

-----------------------------------------------------------------------------
(* Repeated calls of compare on one InventoryComparator *)

MaxCalls == 3        \* most calls of compare in a row

\* the sheets the calls are made with: one row each
RepeatSheets ==
    {[columns |-> SheetColumns, rows |-> <<r>>] :
        r \in {MkRow(<<"a">>, <<"1">>), MkRow(<<"a">>, <<"2">>), MkRow(<<"b">>, <<"1">>)}}

InitRepeat ==
    /\ pc = "input"
    /\ value = NoneValue
    /\ parsed = NotRun
    /\ data1 = NoTable
    /\ data2 = NoTable
    /\ validation = NotRun
    /\ map1 = EmptyDict
    /\ map2 = EmptyDict
    /\ items = <<>>
    /\ summary = NoSummary
    /\ export_data = <<>>
    /\ AppIdle

\* one more call comparator.compare(d1, d2); calls keeps the arguments and
\* the result of every call so far
CallCompare ==
    /\ Len(calls) < MaxCalls
    /\ \E d1 \in RepeatSheets : \E d2 \in RepeatSheets :
          LET r == compare(d1, d2)
          IN  /\ data1' = d1
              /\ data2' = d2
              /\ map1' = r.map1
              /\ map2' = r.map2
              /\ items' = r.items
              /\ summary' = r.summary
              /\ calls' = Append(calls, [data1 |-> d1, data2 |-> d2,
                                         items |-> r.items, summary |-> r.summary])
    /\ pc' = "done"
    /\ UNCHANGED <<value, parsed, validation, export_data, session, file1, file2,
                   rendered, rerun>>

NextRepeat == CallCompare

SpecRepeat == InitRepeat /\ [][NextRepeat]_vars

-----------------------------------------------------------------------------
(* C14 *)

-----------------------------------------------------------------------------
(* Run of _generate_key on the two rows of a sheet *)

MaxKeyLen == 1       \* longest text of an identifying cell

\* texts of an identifying cell: letters, blanks and the delimiter
KeyTexts == Texts({"a", " ", "|"}, MaxKeyLen)

\* rows that differ in the first two identifying columns
KeyRows ==
    {[c \in SheetColumns |->
         IF c = KEY_COLUMNS[1] THEN k1
         ELSE IF c = KEY_COLUMNS[2] THEN k2
         ELSE IF c = STOCK_COLUMN THEN <<"1">> ELSE <<>>] :
        k1 \in KeyTexts, k2 \in KeyTexts}

InitKey ==
    /\ pc = "input"
    /\ value = NoneValue
    /\ parsed = NotRun
    /\ data1 \in {[columns |-> SheetColumns, rows |-> r] : r \in [1..2 -> KeyRows]}
    /\ data2 = NoTable
    /\ validation = NotRun
    /\ map1 = EmptyDict
    /\ map2 = EmptyDict
    /\ items = <<>>
    /\ summary = NoSummary
    /\ export_data = <<>>
    /\ AppIdle

\* _create_data_map(data1); calls keeps the key _generate_key gave each row
GenerateKeys ==
    /\ pc = "input"
    /\ map1' = _create_data_map(data1)
    /\ calls' = [i \in 1..Len(data1.rows) |->
                    [fn |-> "_generate_key", args |-> <<data1.rows[i]>>,
                     key |-> _generate_key(data1.rows[i])]]
    /\ pc' = "done"
    /\ UNCHANGED <<value, parsed, data1, data2, validation, map2, items, summary,
                   export_data, session, file1, file2, rendered, rerun>>

NextKey == GenerateKeys

SpecKey == InitKey /\ [][NextKey]_vars

-----------------------------------------------------------------------------
(* C17 *)

\* the two rows have equal trimmed text in every identifying column
SameIdentity(row_a, row_b) ==
    \A i \in 1..Len(KEY_COLUMNS) :
        Strip(row_a[KEY_COLUMNS[i]]) = Strip(row_b[KEY_COLUMNS[i]])

\* C17 as claimed: two rows get the same composite key exactly when their
\* trimmed values are equal in every identifying column, whatever the cell
\* text, so rows that differ in an identifying column are never stored
\* under one key.
SameKeyIffSameIdentity ==
    pc = "done" =>
        /\ calls[1].key = calls[2].key <=> SameIdentity(data1.rows[1], data1.rows[2])
        /\ ~SameIdentity(data1.rows[1], data1.rows[2])
               => Cardinality(DOMAIN map1) = 2

-----------------------------------------------------------------------------
(* SessionState *)

\* d.update(upd)
Update(d, upd) ==
    [k \in DOMAIN d \cup DOMAIN upd |-> IF k \in DOMAIN upd THEN upd[k] ELSE d[k]]

\* SessionState.initialize: defaults for the keys that are absent
initialize(sess) ==
    Update([comparison_completed |-> FALSE, device_type |-> "desktop"], sess)

keys_to_clear ==
    {"comparison_completed", "all_items", "summary", "original_columns",
     "file1_name", "file1_sheet", "file2_name", "file2_sheet"}

\* clear_comparison_data with comparison_completed left out of keys_to_clear
clear_comparison_data_keeps_flag(sess) ==
    [k \in DOMAIN sess \ (keys_to_clear \ {"comparison_completed"}) |-> sess[k]]

\* SessionState.clear_comparison_data
clear_comparison_data(sess) == [k \in DOMAIN sess \ keys_to_clear |-> sess[k]]

\* SessionState.save_comparison_result
save_comparison_result(sess, its, summ, columns, name1, sheet1, name2, sheet2) ==
    Update(sess, [all_items |-> its, summary |-> summ,
                  original_columns |-> columns, comparison_completed |-> TRUE,
                  file1_name |-> name1, file1_sheet |-> sheet1,
                  file2_name |-> name2, file2_sheet |-> sheet2])

\* st.session_state.get('device_type', 'desktop')
get_device_type(sess) ==
    IF "device_type" \in DOMAIN sess THEN sess.device_type ELSE "desktop"

-----------------------------------------------------------------------------
(* Paging *)

ITEMS_PER_PAGE_MOBILE == 20
ITEMS_PER_PAGE_TABLET == 50
ITEMS_PER_PAGE_DESKTOP == 100

get_items_per_page(sess) ==
    IF get_device_type(sess) = "mobile" THEN ITEMS_PER_PAGE_MOBILE
    ELSE IF get_device_type(sess) = "tablet" THEN ITEMS_PER_PAGE_TABLET
    ELSE ITEMS_PER_PAGE_DESKTOP

Max(a, b) == IF a >= b THEN a ELSE b
Min(a, b) == IF a <= b THEN a ELSE b

\* get_page_info: math.ceil(total_items / items_per_page), 1 for no items
get_page_info(total, items_per_page) ==
    LET pages == IF total > 0
                 THEN (total + items_per_page - 1) \div items_per_page
                 ELSE 1
    IN  [total_pages |-> pages, max_page |-> Max(1, pages)]

\* get_page_items: the slice items[start_idx:end_idx]
get_page_items(its, page, items_per_page) ==
    LET start_idx == (page - 1) * items_per_page
        end_idx == start_idx + items_per_page
    IN  IF start_idx >= Len(its) THEN <<>>
        ELSE SubSeq(its, start_idx + 1, Min(end_idx, Len(its)))

\* the widget event of a script run: the paging widget of a tab the user
\* acted on ("select", "first", "prev", "next", "last"), with the page picked
\* in the selectbox
NoNav == [tab |-> "none", widget |-> "none", page |-> 0]

Clicked(nav, tab_key, widget) == nav.tab = tab_key /\ nav.widget = widget

\* value of st.selectbox(..., index=current_page - 1): the page the user
\* picked in this run, else the option at index (the selectbox is created
\* anew whenever its index argument changes)
PageSelect(nav, tab_key, current_page) ==
    IF Clicked(nav, tab_key, "select") THEN nav.page ELSE current_page

\* render_pagination_controls from the selectbox on; an index outside the
\* options makes st.selectbox raise.  In the row layout the value of the
\* selectbox is assigned after the "first" and "prev" buttons.
PaginationWidgets(pages, current_page, tab_key, device_type, nav) ==
    IF current_page \notin 1..pages
    THEN [page |-> current_page, shown |-> FALSE, exc |-> "StreamlitAPIException"]
    ELSE [shown |-> TRUE, exc |-> "none",
          page |->
              IF device_type = "mobile"
              THEN IF Clicked(nav, tab_key, "next") THEN Min(pages, current_page + 1)
                   ELSE IF Clicked(nav, tab_key, "prev") THEN Max(1, current_page - 1)
                   ELSE PageSelect(nav, tab_key, current_page)
              ELSE IF Clicked(nav, tab_key, "last") THEN pages
                   ELSE IF Clicked(nav, tab_key, "next")
                   THEN Min(pages, current_page + 1)
                   ELSE PageSelect(nav, tab_key, current_page)]

render_pagination_controls(total, current_page, tab_key, sess, nav) ==
    IF total <= get_items_per_page(sess)
    THEN [page |-> current_page, shown |-> FALSE, exc |-> "none"]
    ELSE PaginationWidgets(get_page_info(total, get_items_per_page(sess)).total_pages,
                           current_page, tab_key, get_device_type(sess), nav)

-----------------------------------------------------------------------------
(* One script run of main() *)

NoneData == [nodata |-> TRUE]       \* load_excel_file returned None

NoResult == [map1 |-> EmptyDict, map2 |-> EmptyDict, items |-> <<>>,
             summary |-> NoSummary]

\* load_excel_file(file, ...) if file else (None, "", "")
load_excel_file(f) ==
    IF f = NoFile \/ ~f.readable
    THEN [data |-> NoneData, name |-> "", sheet |-> ""]
    ELSE [data |-> f.data, name |-> f.name, sheet |-> f.sheet]

FilterTypes == {"all", "added", "deleted", "modified", "unchanged"}

PageKey(filter_type) ==
    CASE filter_type = "all" -> "page_all"
      [] filter_type = "added" -> "page_added"
      [] filter_type = "deleted" -> "page_deleted"
      [] filter_type = "modified" -> "page_modified"
      [] filter_type = "unchanged" -> "page_unchanged"

\* filtered_items of a tab of render_results
FilteredItems(its, filter_type) ==
    IF filter_type = "all" THEN its
    ELSE SelectSeq(its, LAMBDA item : item.type = filter_type)

TabOrder == <<"all", "added", "deleted", "modified", "unchanged">>

\* key of the page selectbox of a tab
SelectKey(filter_type) ==
    CASE filter_type = "all" -> "page_select_all"
      [] filter_type = "added" -> "page_select_added"
      [] filter_type = "deleted" -> "page_select_deleted"
      [] filter_type = "modified" -> "page_select_modified"
      [] filter_type = "unchanged" -> "page_select_unchanged"

\* the st.info of a tab whose page has no items
NoItemsInfo(filter_type) ==
    CASE filter_type = "all" -> "no_items_all"
      [] filter_type = "added" -> "no_items_added"
      [] filter_type = "deleted" -> "no_items_deleted"
      [] filter_type = "modified" -> "no_items_modified"
      [] filter_type = "unchanged" -> "no_items_unchanged"

\* if page_key not in st.session_state: st.session_state[page_key] = 1
WithPage(sess, page_key) ==
    [k \in DOMAIN sess \cup {page_key} |-> IF k \in DOMAIN sess THEN sess[k] ELSE 1]

\* a tab of render_results from the return of render_pagination_controls
\* on: p is what it returned, sess1 the session with the page number
TabPaged(acc, sess1, filtered, filter_type, p) ==
    IF p.exc # "none"
    THEN [session |-> sess1, widgets |-> acc.widgets \cup {"exception"},
          status |-> "exception"]
    ELSE IF p.page # sess1[PageKey(filter_type)]
    THEN [session |-> [sess1 EXCEPT ![PageKey(filter_type)] = p.page],
          widgets |-> acc.widgets \cup {SelectKey(filter_type)},
          status |-> "rerun"]
    ELSE [session |-> sess1,
          widgets |-> acc.widgets
                      \cup (IF p.shown THEN {SelectKey(filter_type)} ELSE {})
                      \cup (IF get_page_items(filtered, p.page,
                                              get_items_per_page(sess1)) = <<>>
                            THEN {NoItemsInfo(filter_type)} ELSE {}),
          status |-> "ok"]

\* a tab with items
TabShown(acc, sess1, filtered, filter_type, nav) ==
    TabPaged(acc, sess1, filtered, filter_type,
             render_pagination_controls(Len(filtered), sess1[PageKey(filter_type)],
                                        filter_type, sess1, nav))

\* one tab of the loop of render_results; an exception or st.rerun() in an
\* earlier tab has ended the run
RenderTab(acc, its, filter_type, nav) ==
    IF acc.status # "ok" \/ FilteredItems(its, filter_type) = <<>> THEN acc
    ELSE TabShown(acc, WithPage(acc.session, PageKey(filter_type)),
                  FilteredItems(its, filter_type), filter_type, nav)

\* the first n tabs
RECURSIVE RenderTabs(_, _, _, _)
RenderTabs(sess, its, nav, n) ==
    IF n = 0 THEN [session |-> sess, widgets |-> {}, status |-> "ok"]
    ELSE RenderTab(RenderTabs(sess, its, nav, n - 1), its, TabOrder[n], nav)

\* render_results: the session it leaves, the paging widgets and notices
\* it rendered, and how the run went on ("ok", "rerun", "exception")
render_results(sess, its, nav) ==
    IF its = <<>> THEN [session |-> sess, widgets |-> {}, status |-> "ok"]
    ELSE RenderTabs(sess, its, nav, Len(TabOrder))

\* the body of the "compare" button of handle_comparison_execution:
\* r is what compare returned
RunComparison(sess, l1, l2, v, r) ==
    [session |-> save_comparison_result(sess, r.items, r.summary,
                     l1.data.columns, l1.name, l1.sheet, l2.name, l2.sheet),
     validation |-> v,
     calls |-> <<[fn |-> "validate_data", args |-> <<l1.data, l2.data>>,
                  ok |-> v.ok],
                 [fn |-> "compare", args |-> <<l1.data, l2.data>>,
                  ok |-> TRUE]>>,
     result |-> r, rendered |-> {"compare"}, rerun |-> TRUE]

\* handle_comparison_execution when the button is not pressed, or not
\* rendered after a failed validation
NoComparison(sess, l1, l2, v, buttons) ==
    [session |-> sess, validation |-> v,
     calls |-> <<[fn |-> "validate_data", args |-> <<l1.data, l2.data>>,
                  ok |-> v.ok]>>,
     result |-> NoResult, rendered |-> buttons, rerun |-> FALSE]

\* as AfterValidation, without the return after a failed validation
AfterValidationNoReturn(sess, l1, l2, clicked, v) ==
    IF clicked
    THEN RunComparison(sess, l1, l2, v, compare(l1.data, l2.data))
    ELSE NoComparison(sess, l1, l2, v, {"compare"})

\* handle_comparison_execution from the result v of validate_data on;
\* clicked is the value of the "compare" button
AfterValidation(sess, l1, l2, clicked, v) ==
    IF ~v.ok
    THEN NoComparison(sess, l1, l2, v, {})
    ELSE IF clicked
    THEN RunComparison(sess, l1, l2, v, compare(l1.data, l2.data))
    ELSE NoComparison(sess, l1, l2, v, {"compare"})

handle_comparison_execution(sess, l1, l2, clicked) ==
    AfterValidation(sess, l1, l2, clicked, validate_data(l1.data, l2.data))

\* a run that calls neither validate_data nor compare
Quiet(sess, d1, d2, widgets, again) ==
    [session |-> sess, data1 |-> d1, data2 |-> d2, validation |-> NotRun,
     calls |-> <<>>, result |-> NoResult, export |-> <<>>, rendered |-> widgets,
     rerun |-> again]

\* the upload branch of main with both tables loaded: h is what
\* handle_comparison_execution did
Compared(l1, l2, h) ==
    [session |-> h.session, data1 |-> l1.data, data2 |-> l2.data,
     validation |-> h.validation, calls |-> h.calls, result |-> h.result,
     export |-> <<>>,
     rendered |-> {"device", "file1", "file2"} \cup h.rendered,
     rerun |-> h.rerun]

\* the result branch of main: the "clear" button, else render_results; csv
\* is what render_sidebar made for the download button
Results(sess, button, nav, csv, r) ==
    IF button = "clear"
    THEN [Quiet(clear_comparison_data(sess), NoneData, NoneData,
                {"device", "download", "clear"}, TRUE) EXCEPT !.export = csv]
    ELSE [Quiet(r.session, NoneData, NoneData,
                {"device", "download", "clear"} \cup r.widgets, r.status = "rerun")
             EXCEPT !.export = csv]

\* main() after SessionState.initialize, with l1 and l2 the results of
\* load_excel_file; button is the button pressed for this run ("none",
\* "compare", "clear"), device the value of the device selectbox, nav the
\* paging widget acted on
MainContent(sess, l1, l2, button, device, nav) ==
    IF device # get_device_type(sess)
    THEN \* render_sidebar: st.session_state.device_type = ...; st.rerun()
         Quiet([sess EXCEPT !.device_type = device], NoneData, NoneData,
               {"device"}, TRUE)
    ELSE IF ~sess.comparison_completed
    THEN IF l1.data # NoneData /\ l2.data # NoneData
         THEN Compared(l1, l2,
                  handle_comparison_execution(sess, l1, l2, button = "compare"))
         ELSE Quiet(sess, l1.data, l2.data, {"device", "file1", "file2"}, FALSE)
    ELSE Results(sess, button, nav,
                 IF "all_items" \in DOMAIN sess
                 THEN create_csv_data(sess.all_items, sess.original_columns)
                 ELSE <<>>,
                 render_results(sess, sess.all_items, nav))

main(sess0, f1, f2, button, device, nav) ==
    MainContent(initialize(sess0), load_excel_file(f1), load_excel_file(f2),
                button, device, nav)

-----------------------------------------------------------------------------
(* The application: user events, each followed by a script run *)

\* a readable workbook with one sheet holding the given table
Workbook(cols, rws) ==
    [file |-> "xlsx", readable |-> TRUE, name |-> "book.xlsx", sheet |-> "Sheet1",
     data |-> [columns |-> cols,
               rows |-> [i \in 1..Len(rws) |-> [c \in cols |-> rws[i][c]]]]]

\* a file that validate_file or pd.ExcelFile rejects
BadFile == [file |-> "xlsx", readable |-> FALSE]

\* the files a user may upload
Uploads ==
    {BadFile,
     Workbook(SheetColumns, <<MkRow(<<"a">>, <<"1">>)>>),
     Workbook(SheetColumns, <<MkRow(<<"a">>, <<"2">>), MkRow(<<"b">>, <<"1">>)>>),
     Workbook(SheetColumns, <<>>),
     Workbook(SheetColumns \ {STOCK_COLUMN}, <<MkRow(<<"a">>, <<"1">>)>>),
     Workbook(SheetColumns \ {KEY_COLUMNS[5]}, <<MkRow(<<"a">>, <<"1">>)>>)}

DeviceTypes == {"desktop", "tablet", "mobile"}

Init ==
    /\ pc = "app"
    /\ value = NoneValue
    /\ parsed = NotRun
    /\ data1 = NoneData
    /\ data2 = NoneData
    /\ validation = NotRun
    /\ map1 = EmptyDict
    /\ map2 = EmptyDict
    /\ items = <<>>
    /\ summary = NoSummary
    /\ export_data = <<>>
    /\ session = EmptyDict
    /\ file1 = NoFile
    /\ file2 = NoFile
    /\ calls = <<>>
    /\ rendered = {}
    /\ rerun = TRUE

\* the state a script run leaves: r is what main did
Ran(r, f1, f2) ==
    /\ session' = r.session
    /\ file1' = f1
    /\ file2' = f2
    /\ data1' = r.data1
    /\ data2' = r.data2
    /\ validation' = r.validation
    /\ calls' = r.calls
    /\ map1' = r.result.map1
    /\ map2' = r.result.map2
    /\ items' = r.result.items
    /\ summary' = r.result.summary
    /\ rendered' = r.rendered
    /\ rerun' = r.rerun
    /\ export_data' = r.export
    /\ UNCHANGED <<pc, value, parsed>>

\* the script runs from top to bottom (or to its st.rerun())
ScriptRun(f1, f2, button, device, nav) ==
    Ran(main(session, f1, f2, button, device, nav), f1, f2)

\* page load, or the run started by st.rerun()
Rerun ==
    /\ rerun
    /\ ScriptRun(file1, file2, "none", get_device_type(session), NoNav)

\* a file out of U is put into, or taken out of, the first uploader
Upload1(U) ==
    /\ ~rerun
    /\ "file1" \in rendered
    /\ \E f \in (U \cup {NoFile}) \ {file1} :
          ScriptRun(f, file2, "none", get_device_type(session), NoNav)

Upload2(U) ==
    /\ ~rerun
    /\ "file2" \in rendered
    /\ \E f \in (U \cup {NoFile}) \ {file2} :
          ScriptRun(file1, f, "none", get_device_type(session), NoNav)

UploadFile1 == Upload1(Uploads)

UploadFile2 == Upload2(Uploads)

ClickCompare ==
    /\ ~rerun
    /\ "compare" \in rendered
    /\ ScriptRun(file1, file2, "compare", get_device_type(session), NoNav)

ClickClear ==
    /\ ~rerun
    /\ "clear" \in rendered
    /\ ScriptRun(file1, file2, "clear", get_device_type(session), NoNav)

SelectDevice ==
    /\ ~rerun
    /\ "device" \in rendered
    /\ \E d \in DeviceTypes \ {get_device_type(session)} :
          ScriptRun(file1, file2, "none", d, NoNav)

Next ==
    \/ Rerun
    \/ UploadFile1
    \/ UploadFile2
    \/ ClickCompare
    \/ ClickClear
    \/ SelectDevice

Spec == Init /\ [][Next]_vars

-----------------------------------------------------------------------------
(* C16 *)

\* C16: whenever comparison_completed is true in the session, the keys
\* all_items, summary and original_columns are present; and a session
\* without comparison_completed (at page load, and after
\* clear_comparison_data) has it present and false after the next script
\* run, which starts with SessionState.initialize.
SessionKeysPresent ==
    /\ []( ("comparison_completed" \in DOMAIN session /\ session.comparison_completed)
              => {"all_items", "summary", "original_columns"} \subseteq DOMAIN session )
    /\ [][ "comparison_completed" \notin DOMAIN session
              => /\ "comparison_completed" \in DOMAIN session'
                 /\ session'.comparison_completed = FALSE ]_vars

\* the run after "clear": the result of the earlier comparison is gone (its
\* page number is still there) and comparison_completed is false
SessionKeysPresentWitness ==
    /\ ~rerun
    /\ "page_all" \in DOMAIN session
    /\ "all_items" \notin DOMAIN session
    /\ "comparison_completed" \in DOMAIN session
    /\ session.comparison_completed = FALSE

-----------------------------------------------------------------------------
(* The application with workbooks long enough to be paged *)

\* rows of the long workbook: two pages on a tablet, three on a mobile
LongRows == ITEMS_PER_PAGE_TABLET + 1

\* key text of the i-th row of the long workbook: i in base 3
LongKey(i) ==
    <<DigitChar(i \div 27), DigitChar((i \div 9) % 3), DigitChar((i \div 3) % 3),
      DigitChar(i % 3)>>

LongBook ==
    Workbook(SheetColumns, [i \in 1..LongRows |-> MkRow(LongKey(i), <<"1">>)])

\* the files a user may upload
PageUploads == {LongBook}

UploadLongFile1 == Upload1(PageUploads)

UploadLongFile2 == Upload2(PageUploads)

\* filtered_items of a tab of the results in the session
TabItems(filter_type) == FilteredItems(session.all_items, filter_type)

\* pages of a tab at the present device type
TabPages(filter_type) ==
    get_page_info(Len(TabItems(filter_type)), get_items_per_page(session)).total_pages

\* the user picks another page in the selectbox of a tab
SelectPage ==
    /\ ~rerun
    /\ \E t \in FilterTypes :
          /\ SelectKey(t) \in rendered
          /\ \E p \in (1..TabPages(t)) \ {session[PageKey(t)]} :
                ScriptRun(file1, file2, "none", get_device_type(session),
                          [tab |-> t, widget |-> "select", page |-> p])

\* a paging button of a tab, enabled unless disabled=... holds
ClickPaging(widget, t) ==
    /\ ~rerun
    /\ SelectKey(t) \in rendered
    /\ ScriptRun(file1, file2, "none", get_device_type(session),
                 [tab |-> t, widget |-> widget, page |-> 0])

ClickFirst ==
    \E t \in FilterTypes :
        /\ get_device_type(session) # "mobile"
        /\ PageKey(t) \in DOMAIN session
        /\ session[PageKey(t)] # 1
        /\ ClickPaging("first", t)

ClickPrev ==
    \E t \in FilterTypes :
        /\ PageKey(t) \in DOMAIN session
        /\ session[PageKey(t)] # 1
        /\ ClickPaging("prev", t)

ClickNext ==
    \E t \in FilterTypes :
        /\ SelectKey(t) \in rendered
        /\ session[PageKey(t)] # TabPages(t)
        /\ ClickPaging("next", t)

ClickLast ==
    \E t \in FilterTypes :
        /\ get_device_type(session) # "mobile"
        /\ SelectKey(t) \in rendered
        /\ session[PageKey(t)] # TabPages(t)
        /\ ClickPaging("last", t)

NextPages ==
    \/ Rerun
    \/ UploadLongFile1
    \/ UploadLongFile2
    \/ ClickCompare
    \/ ClickClear
    \/ SelectDevice
    \/ SelectPage
    \/ ClickFirst
    \/ ClickPrev
    \/ ClickNext
    \/ ClickLast

SpecPages == Init /\ [][NextPages]_vars

-----------------------------------------------------------------------------
(* C15 *)

\* C15 as claimed: when a run has rendered the results, the page number of
\* every tab with items lies between 1 and the number of pages of the tab,
\* no tab with items shows an empty page, and no page selectbox was given
\* an index outside its options.
PageWithinPages ==
    (~rerun /\ "all_items" \in DOMAIN session) =>
        /\ \A t \in FilterTypes :
               (PageKey(t) \in DOMAIN session /\ TabItems(t) # <<>>) =>
                   /\ session[PageKey(t)] \in 1..TabPages(t)
                   /\ NoItemsInfo(t) \notin rendered
        /\ "exception" \notin rendered

\* a tab with items shows the notice of an empty page
EmptyPageShown ==
    /\ "all_items" \in DOMAIN session
    /\ \E t \in FilterTypes : TabItems(t) # <<>> /\ NoItemsInfo(t) \in rendered

\* a page selectbox was given an index outside its options
SelectboxIndexOutside == "exception" \in rendered


-----------------------------------------------------------------------------
(* C9 *)

\* C9: in every script run compare is called only after validate_data has
\* succeeded on the same two tables; in a run whose validation fails
\* compare is not called, no result is in the session and
\* comparison_completed is false.
CompareOnlyAfterValidation ==
    /\ \A i \in 1..Len(calls) :
          calls[i].fn = "compare" =>
              \E j \in 1..(i - 1) :
                  /\ calls[j].fn = "validate_data"
                  /\ calls[j].args = calls[i].args
                  /\ calls[j].ok
    /\ (\E j \in 1..Len(calls) : calls[j].fn = "validate_data" /\ ~calls[j].ok) =>
          /\ \A i \in 1..Len(calls) : calls[i].fn # "compare"
          /\ items = <<>>
          /\ "all_items" \notin DOMAIN session
          /\ "summary" \notin DOMAIN session
          /\ session.comparison_completed = FALSE

\* a run that validated and compared two tables and saved the result
CompareOnlyAfterValidationWitness ==
    /\ Len(calls) = 2
    /\ calls[2].fn = "compare"
    /\ session.comparison_completed = TRUE
    /\ session.all_items = items
    /\ Len(items) = 2

\* a run whose validation failed, after an earlier comparison was cleared
FailedValidationWitness ==
    /\ Len(calls) = 1
    /\ ~calls[1].ok
    /\ validation.msg = "columns differ"
    /\ "page_all" \in DOMAIN session

====
